---- MODULE Spec2Model ----
(***************************************************************************)
(* Model of server.js (SaveGram backend): the page fetcher, the three      *)
(* extraction strategies and their orchestrator (POST /api/download), the  *)
(* quality selection of findVideoInObject, and the streaming proxy         *)
(* (GET /api/stream).                                                      *)
(*                                                                         *)
(* Strings are sequences of one-character strings, so that the escape      *)
(* decoding of the code (.replace(/\\u0026/g, '&') and                     *)
(* .replace(/\\\//g, '/')) and the length comparison of Strategy 3 are     *)
(* computed as the code computes them.                                     *)
(***************************************************************************)
EXTENDS Integers, Sequences, FiniteSets, TLC

VARIABLES
    \* ---- POST /api/download: fetchPage + extractVideoUrl ----
    dpc,        \* position of the handler
    dtimer,     \* the 15 s timer of fetchPage: "unset", "armed", "cleared", "fired"
    daborted,   \* controller.signal.aborted of fetchPage
    ddeadline,  \* TRUE once 15 s have elapsed since fetchPage armed its timer
    fetches,    \* number of fetch() calls made for the page
    html,       \* the fetched document (NoDoc before)
    invoked,    \* the strategies called so far, with their outcomes, in call order
    idx,        \* index of the next strategy of the for loop
    result,     \* what extractVideoUrl returned (Null before / on failure)
    err,        \* the error thrown to the route's catch (NoError if none)
    warned,     \* console.warn lines of extractVideoUrl
    dres,       \* the HTTP response of /api/download
    \* ---- findVideoInObject applied to one parsed JSON value ----
    qin, qout,
    \* ---- GET /api/stream ----
    spc,        \* position of the handler
    stimer,     \* the 60 s timer: "unset", "armed", "cleared", "fired"
    saborted,   \* controller.signal.aborted of the stream handler
    sdeadline,  \* TRUE once 60 s have elapsed since the timer was armed
    body,       \* the chunks the upstream is going to deliver
    pos,        \* how many of them the reader has handed over
    upstream,   \* "idle", "connecting", "streaming", "stalled", "errored", "complete"
    written,    \* the chunks passed to res.write, in call order
    queued,     \* chunks held in the response's buffer, not yet taken by the client
    accepted,   \* how many chunks the client has taken off the connection
    res,        \* the client response: [status, headersSent, ended, payload]
    clientOpen, \* FALSE once the client has disconnected
    closedInBody, \* TRUE if it disconnected while the body was being forwarded
    readsAfterClose  \* reader.read() calls issued after the client disconnected

dvars == <<dpc, dtimer, daborted, ddeadline, fetches, html, invoked, idx, result,
           err, warned, dres>>
qvars == <<qin, qout>>
svars == <<spc, stimer, saborted, sdeadline, body, pos, upstream, written,
           queued, accepted, res, clientOpen, closedInBody, readsAfterClose>>
vars == <<dvars, qvars, svars>>

----------------------------------------------------------------------------
(* Strings *)

HTTPS == <<"h", "t", "t", "p", "s", ":">>
ESC_AMP == <<"\\", "u", "0", "0", "2", "6">>      \* the six characters of the escape
ESC_SLASH == <<"\\", "/">>                        \* the two characters \/

RECURSIVE ReplaceAll(_, _, _)
\* String.prototype.replace with a global literal pattern
ReplaceAll(s, pat, rep) ==
    IF Len(s) < Len(pat) THEN s
    ELSE IF SubSeq(s, 1, Len(pat)) = pat
         THEN rep \o ReplaceAll(SubSeq(s, Len(pat) + 1, Len(s)), pat, rep)
         ELSE <<Head(s)>> \o ReplaceAll(Tail(s), pat, rep)

\* .replace(/\\u0026/g, '&')
DecodeAmp(s) == ReplaceAll(s, ESC_AMP, <<"&">>)
\* .replace(/\\u0026/g, '&').replace(/\\\//g, '/')
DecodeAmpSlash(s) == ReplaceAll(DecodeAmp(s), ESC_SLASH, <<"/">>)

----------------------------------------------------------------------------
(* JSON values, as JSON.parse yields them *)

Absent == [t |-> "absent"]                 \* the property is not there
Str(s) == [t |-> "str", s |-> s]
Num(n) == [t |-> "num", n |-> n]
Scalar == [t |-> "scalar"]                 \* null, true, a number: not an object
\* an object; kids are its other property values, in insertion order
Obj(vu, vv, kids) == [t |-> "obj", video_url |-> vu, video_versions |-> vv, kids |-> kids]
Arr(items) == [t |-> "arr", items |-> items]
Version(w, u) == [width |-> w, url |-> u]

\* results of findVideoInObject: null, undefined, a string, or a TypeError thrown
FNull == [t |-> "null"]
FUndefined == [t |-> "undefined"]
FThrow == [t |-> "throw"]

\* JavaScript truthiness of a property value
Truthy(v) ==
    CASE v.t = "str" -> v.s # <<>>
      [] v.t = "num" -> v.n # 0
      [] v.t \in {"obj", "arr"} -> TRUE
      [] OTHER -> FALSE

\* (x.width || 0)
WidthOr0(e) == IF Truthy(e.width) THEN e.width.n ELSE 0

versionCompareAscending(a, b) == WidthOr0(a) - WidthOr0(b)
\* the comparator (a, b) => (b.width || 0) - (a.width || 0)
versionCompare(a, b) == WidthOr0(b) - WidthOr0(a)

RECURSIVE InsertVersion(_, _)
\* x goes after every element that does not compare greater than it (stable)
InsertVersion(sorted, x) ==
    IF sorted = <<>> THEN <<x>>
    ELSE IF versionCompare(Head(sorted), x) <= 0
         THEN <<Head(sorted)>> \o InsertVersion(Tail(sorted), x)
         ELSE <<x>> \o sorted

RECURSIVE SortVersions(_)
\* Array.prototype.sort with versionCompare: a stable sort (ES2019)
SortVersions(s) ==
    IF s = <<>> THEN <<>>
    ELSE InsertVersion(SortVersions(SubSeq(s, 1, Len(s) - 1)), s[Len(s)])

MaxDepth == 15

\* x?.replace(/\\u0026/g, '&') on a property value
OptReplace(v) ==
    CASE v.t = "absent" -> FUndefined
      [] v.t = "str" -> Str(DecodeAmp(v.s))
      [] OTHER -> FThrow                   \* .replace is not a function

RECURSIVE findVideoInObject(_, _)
RECURSIVE FirstFound(_, _)
\* the for loop of findVideoInObject over the values of obj
FirstFound(values, depth) ==
    IF values = <<>> THEN FNull
    ELSE LET found == findVideoInObject(Head(values), depth + 1)
         IN  IF found.t = "throw" \/ Truthy(found) THEN found
             ELSE FirstFound(Tail(values), depth)

findVideoInObject(obj, depth) ==
    IF depth > MaxDepth \/ obj.t \notin {"obj", "arr"} THEN FNull
    ELSE IF obj.t = "arr" THEN FirstFound(obj.items, depth)
    ELSE IF Truthy(obj.video_url) THEN
        (IF obj.video_url.t = "str" THEN Str(DecodeAmp(obj.video_url.s)) ELSE FThrow)
    ELSE IF obj.video_versions.t = "arr" /\ Len(obj.video_versions.items) > 0 THEN
        OptReplace(SortVersions(obj.video_versions.items)[1].url)
    ELSE FirstFound(obj.kids, depth)

RECURSIVE Nest(_, _)
\* v wrapped in n single-property objects
Nest(n, v) == IF n = 0 THEN v ELSE Obj(Absent, Absent, <<Nest(n - 1, v)>>)

----------------------------------------------------------------------------
(* Documents.  A fetched page is described by what the regular expressions  *)
(* and the DOM queries of the three strategies find in it.                  *)

NoMatch == [t |-> "nomatch"]               \* html.match(pattern) is null
Invalid == [t |-> "invalid"]               \* matched, but JSON.parse(match[1]) throws
Json(v) == [t |-> "json", v |-> v]         \* matched, and parses to v

UrlA == HTTPS \o <<"/", "/", "c", "/", "a">>
UrlB == HTTPS \o <<"/", "/", "c", "/", "b", "b">>
\* a string that still holds the escape after JSON.parse (\\u0026 in the page)
UrlEsc == HTTPS \o <<"/", "/", "c", "/", "e", "?", "x">> \o ESC_AMP \o <<"y">>
\* raw page text, as the regular expressions capture it
RawSlash == HTTPS \o <<"\\", "/", "\\", "/", "c", "\\", "/", "v", ".", "m", "p", "4">>
UrlOg == HTTPS \o <<"/", "/", "c", "/", "o", "g">>

JDirect == Obj(Str(UrlA), Absent, <<>>)
JVersions == Obj(Absent, Arr(<<Version(Num(480), Str(UrlA)),
                               Version(Num(1080), Str(UrlEsc))>>), <<>>)
JImage == Obj(Absent, Absent, <<Scalar, Obj(Absent, Arr(<<>>), <<>>)>>)
JBadType == Obj(Absent, Absent, <<Obj(Num(1), Absent, <<>>)>>)
JNoUrl == Obj(Absent, Absent, <<Obj(Absent, Arr(<<Version(Num(640), Absent)>>), <<>>)>>)
JDeep == Nest(MaxDepth, JDirect)
JTooDeep == Nest(MaxDepth + 1, JDirect)

SharedBlobs == {NoMatch, Invalid} \cup
               {Json(v) : v \in {JDirect, JVersions, JImage, JBadType, JNoUrl,
                                 JDeep, JTooDeep}}
AdditionalBlobs == {NoMatch, Invalid} \cup {Json(v) : v \in {JVersions, JImage, JBadType}}

RECURSIVE HasVideoUrl(_)
RECURSIVE AnyHasVideoUrl(_)
\* whether the JSON text of v holds a "video_url":"http..." property
HasVideoUrl(v) ==
    /\ v.t \in {"obj", "arr"}
    /\ IF v.t = "arr" THEN AnyHasVideoUrl(v.items)
       ELSE (v.video_url.t = "str" /\ v.video_url.s # <<>>) \/ AnyHasVideoUrl(v.kids)
AnyHasVideoUrl(vs) == vs # <<>> /\ (HasVideoUrl(Head(vs)) \/ AnyHasVideoUrl(Tail(vs)))

RECURSIVE HasVersionUrl(_)
RECURSIVE AnyHasVersionUrl(_)
\* whether the JSON text of v holds a video_versions entry with a "url":"http..."
HasVersionUrl(v) ==
    /\ v.t \in {"obj", "arr"}
    /\ IF v.t = "arr" THEN AnyHasVersionUrl(v.items)
       ELSE \/ /\ v.video_versions.t = "arr"
               /\ \E i \in DOMAIN v.video_versions.items :
                      v.video_versions.items[i].url.t = "str"
            \/ AnyHasVersionUrl(v.kids)
AnyHasVersionUrl(vs) == vs # <<>> /\ (HasVersionUrl(Head(vs)) \/ AnyHasVersionUrl(Tail(vs)))

\* The regular expressions of Strategies 1 and 3 read the same page text that
\* JSON.parse reads: a payload that holds a video_url (a version url) makes the
\* "video_url" (video_versions) pattern match somewhere in the page.
Coherent(d) ==
    /\ \A b \in {d.shared, d.additional} :
          b.t = "json" =>
            /\ HasVideoUrl(b.v) => d.videoUrlText # <<>>
            /\ HasVersionUrl(b.v) => d.versionsText # <<>>

Docs ==
    { d \in [ shared : SharedBlobs,
              additional : AdditionalBlobs,
              \* every match of /"video_url"\s*:\s*"(https?:[^"]+)"/g, in page order
              videoUrlText : {<<>>, <<UrlA>>, <<UrlEsc, UrlB>>},
              \* every match of /"contentUrl"\s*:\s*"(https?:[^"]+\.mp4[^"]*)"/g
              contentUrlText : {<<>>, <<RawSlash>>},
              \* every match of /video_versions.*?"url"\s*:\s*"(https?:[^"]+)"/g
              versionsText : {<<>>, <<UrlB>>},
              \* the content of the first <meta property="og:video"> (and so on)
              ogVideo : {Absent, Str(<<>>), Str(UrlOg)},
              ogVideoUrl : {Absent, Str(UrlA)},
              ogSecureUrl : {Absent, Str(UrlB)},
              \* new JSDOM(html) throws (a RangeError on deeply nested markup)
              domThrows : BOOLEAN ] : Coherent(d) }

NoDoc == [t |-> "nodoc"]

----------------------------------------------------------------------------
(* The three strategies *)

SNull == [kind |-> "null"]
Found(u, m) == [kind |-> "found", videoUrl |-> u, method |-> m]
SThrew(msg) == [kind |-> "threw", message |-> msg]
Continue == [kind |-> "continue"]

parseBlobUncaught(blob) ==
    IF blob.t = "invalid" THEN SThrew("Unexpected end of JSON input")
    ELSE LET videoUrl == findVideoInObject(blob.v, 0)
         IN  IF videoUrl.t = "throw" THEN SThrew("obj.video_url.replace is not a function")
             ELSE IF Truthy(videoUrl) THEN Found(videoUrl.s, "embedded_json_parsed")
             ELSE Continue
\* try { JSON.parse; findVideoInObject; if (videoUrl) return } catch {}
parseBlob(blob) ==
    IF blob.t = "invalid" THEN Continue
    ELSE LET videoUrl == findVideoInObject(blob.v, 0)
         IN  IF videoUrl.t = "throw" THEN Continue
             ELSE IF Truthy(videoUrl) THEN Found(videoUrl.s, "embedded_json_parsed")
             ELSE Continue

\* one iteration of the for loop of extractFromEmbeddedJson
tryPattern(d, i) ==
    CASE i = 1 -> IF d.shared.t = "nomatch" THEN Continue ELSE parseBlob(d.shared)
      [] i = 2 -> IF d.additional.t = "nomatch" THEN Continue ELSE parseBlob(d.additional)
      [] i = 3 -> IF d.videoUrlText = <<>> THEN Continue
                  ELSE Found(DecodeAmp(d.videoUrlText[1]), "embedded_json_direct")

NumPatterns == 3

RECURSIVE patternsFrom(_, _)
patternsFrom(d, i) ==
    IF i > NumPatterns THEN SNull
    ELSE LET r == tryPattern(d, i)
         IN  IF r.kind = "continue" THEN patternsFrom(d, i + 1) ELSE r

\* Strategy 1
extractFromEmbeddedJson(d) == patternsFrom(d, 1)

\* Strategy 2
extractFromOpenGraph(d) ==
    IF d.domThrows THEN SThrew("Maximum call stack size exceeded")
    ELSE LET ogVideo == IF d.ogVideo.t # "absent" THEN d.ogVideo
                        ELSE IF d.ogVideoUrl.t # "absent" THEN d.ogVideoUrl
                        ELSE d.ogSecureUrl
         IN  IF Truthy(ogVideo) THEN Found(ogVideo.s, "opengraph") ELSE SNull

RECURSIVE DecodeEach(_)
DecodeEach(ms) ==
    IF ms = <<>> THEN <<>> ELSE <<DecodeAmpSlash(Head(ms))>> \o DecodeEach(Tail(ms))

RECURSIVE InsertByLength(_, _)
InsertByLength(sorted, x) ==
    IF sorted = <<>> THEN <<x>>
    ELSE IF Len(x) - Len(Head(sorted)) <= 0
         THEN <<Head(sorted)>> \o InsertByLength(Tail(sorted), x)
         ELSE <<x>> \o sorted

RECURSIVE SortByLength(_)
\* candidates.sort((a, b) => b.length - a.length), a stable sort
SortByLength(s) ==
    IF s = <<>> THEN <<>>
    ELSE InsertByLength(SortByLength(SubSeq(s, 1, Len(s) - 1)), s[Len(s)])

\* Strategy 3
extractFromGraphQL(d) ==
    LET candidates == DecodeEach(d.videoUrlText \o d.contentUrlText \o d.versionsText)
    IN  IF Len(candidates) > 0
        THEN Found(SortByLength(candidates)[1], "graphql_regex")
        ELSE SNull

strategiesReordered == <<"opengraph", "embedded_json", "graphql">>
\* the strategies array of extractVideoUrl
strategies == <<"embedded_json", "opengraph", "graphql">>

\* strategy.fn()
callStrategy(name, d) ==
    CASE name = "embedded_json" -> extractFromEmbeddedJson(d)
      [] name = "opengraph" -> extractFromOpenGraph(d)
      [] name = "graphql" -> extractFromGraphQL(d)

----------------------------------------------------------------------------
(* POST /api/download: validateUrl, fetchPage, extractVideoUrl *)

NoError == [name |-> "none"]
Error(name, msg) == [name |-> name, message |-> msg]
NoResponse == [status |-> 0]

LikelyCauses ==
    "Could not extract video. The post may be private, image-only, or Instagram blocked the request."

exhaustedErrorEmpty == Error("Error", "")
\* throw new Error('Could not extract video. ...') after the for loop
exhaustedError == Error("Error", LikelyCauses)

clearTimeoutOnSuccessOnly(timer, ok) == IF timer = "armed" /\ ok THEN "cleared" ELSE timer
\* finally { clearTimeout(timeout) }: runs on every exit of the try block
fetchPageFinally(timer, ok) == IF timer = "armed" THEN "cleared" ELSE timer

DownloadIdle ==
    /\ dpc = "idle" /\ dtimer = "unset" /\ daborted = FALSE /\ ddeadline = FALSE
    /\ fetches = 0 /\ html = NoDoc /\ invoked = <<>> /\ idx = 1
    /\ result = SNull /\ err = NoError /\ warned = <<>> /\ dres = NoResponse

\* if (!url || typeof url !== 'string') / if (!validated): 400
DRejectRequest ==
    /\ dpc = "idle"
    /\ \E msg \in {"URL is required.",
                   "Invalid Instagram URL. Supported: posts, reels, IGTV."} :
          dres' = [status |-> 400, error |-> msg]
    /\ dpc' = "done"
    /\ UNCHANGED <<dtimer, daborted, ddeadline, fetches, html, invoked, idx, result,
                   err, warned>>
    /\ UNCHANGED <<qvars, svars>>

\* a valid url: extractVideoUrl calls fetchPage, which arms the timer and awaits fetch()
DStartFetch ==
    /\ dpc = "idle"
    /\ dtimer' = "armed"
    /\ fetches' = fetches + 1
    /\ dpc' = "await_fetch"
    /\ UNCHANGED <<daborted, ddeadline, html, invoked, idx, result, err, warned, dres>>
    /\ UNCHANGED <<qvars, svars>>

\* 15000 ms after setTimeout: the callback () => controller.abort() runs if the
\* timer is still armed
DDeadline ==
    /\ dtimer # "unset" /\ ~ddeadline
    /\ ddeadline' = TRUE
    /\ IF dtimer = "armed"
       THEN dtimer' = "fired" /\ daborted' = TRUE
       ELSE UNCHANGED <<dtimer, daborted>>
    /\ UNCHANGED <<dpc, fetches, html, invoked, idx, result, err, warned, dres>>
    /\ UNCHANGED <<qvars, svars>>

\* fetch() resolves with the response headers
DFetchResponds ==
    /\ dpc = "await_fetch" /\ ~daborted
    /\ \E status \in {200, 404, 429} :
          IF status = 200
          THEN /\ dpc' = "await_text"
               /\ UNCHANGED <<dtimer, err>>
          ELSE \* throw new Error(`Instagram returned ${status}`), through finally
               /\ err' = Error("Error", IF status = 404 THEN "Instagram returned 404"
                                        ELSE "Instagram returned 429")
               /\ dtimer' = fetchPageFinally(dtimer, FALSE)
               /\ dpc' = "catch"
    /\ UNCHANGED <<daborted, ddeadline, fetches, html, invoked, idx, result, warned, dres>>
    /\ UNCHANGED <<qvars, svars>>

\* fetch() or response.text() rejects with a network error, through finally
DNetworkError ==
    /\ dpc \in {"await_fetch", "await_text"} /\ ~daborted
    /\ err' = Error("TypeError", "fetch failed")
    /\ dtimer' = fetchPageFinally(dtimer, FALSE)
    /\ dpc' = "catch"
    /\ UNCHANGED <<daborted, ddeadline, fetches, html, invoked, idx, result, warned, dres>>
    /\ UNCHANGED <<qvars, svars>>

\* the signal was aborted: the pending fetch() or response.text() rejects
DAbortRejects ==
    /\ dpc \in {"await_fetch", "await_text"} /\ daborted
    /\ err' = Error("AbortError", "This operation was aborted")
    /\ dtimer' = fetchPageFinally(dtimer, FALSE)
    /\ dpc' = "catch"
    /\ UNCHANGED <<daborted, ddeadline, fetches, html, invoked, idx, result, warned, dres>>
    /\ UNCHANGED <<qvars, svars>>

\* return await response.text(), through finally
DTextArrives ==
    /\ dpc = "await_text" /\ ~daborted
    /\ \E d \in Docs : html' = d
    /\ dtimer' = fetchPageFinally(dtimer, TRUE)
    /\ dpc' = "strategies"
    /\ UNCHANGED <<daborted, ddeadline, fetches, invoked, idx, result, err, warned, dres>>
    /\ UNCHANGED <<qvars, svars>>

\* one iteration of the for loop of extractVideoUrl
DRunStrategy ==
    /\ dpc = "strategies" /\ idx <= Len(strategies)
    /\ LET name == strategies[idx]
           r == callStrategy(name, html)
       IN  /\ invoked' = Append(invoked, [name |-> name, outcome |-> r.kind])
           /\ IF r.kind = "found"
              THEN result' = r /\ dpc' = "respond" /\ UNCHANGED <<idx, warned>>
              ELSE /\ idx' = idx + 1
                   /\ warned' = IF r.kind = "threw"
                                THEN Append(warned, [name |-> name, message |-> r.message])
                                ELSE warned
                   /\ UNCHANGED <<result, dpc>>
    /\ UNCHANGED <<dtimer, daborted, ddeadline, fetches, html, err, dres>>
    /\ UNCHANGED <<qvars, svars>>

\* the loop is over without a return
DExhausted ==
    /\ dpc = "strategies" /\ idx > Len(strategies)
    /\ err' = exhaustedError
    /\ dpc' = "catch"
    /\ UNCHANGED <<dtimer, daborted, ddeadline, fetches, html, invoked, idx, result,
                   warned, dres>>
    /\ UNCHANGED <<qvars, svars>>

\* res.json({ videoUrl, method, shortcode, type })
DRespondOk ==
    /\ dpc = "respond"
    /\ dres' = [status |-> 200, videoUrl |-> result.videoUrl, method |-> result.method]
    /\ dpc' = "done"
    /\ UNCHANGED <<dtimer, daborted, ddeadline, fetches, html, invoked, idx, result,
                   err, warned>>
    /\ UNCHANGED <<qvars, svars>>

\* catch (err): res.status(422).json({ error: err.message || 'Failed ...' })
DRespondError ==
    /\ dpc = "catch"
    /\ dres' = [status |-> 422,
                error |-> IF err.message # "" THEN err.message
                          ELSE "Failed to extract video. Please try again."]
    /\ dpc' = "done"
    /\ UNCHANGED <<dtimer, daborted, ddeadline, fetches, html, invoked, idx, result,
                   err, warned>>
    /\ UNCHANGED <<qvars, svars>>

----------------------------------------------------------------------------
(* findVideoInObject on one payload: an object with a video_versions array,  *)
(* nested under qin.nest enclosing objects                                   *)

MaxVersions == 3
\* the payload is the parsed value itself, or lies at the deepest level searched
NestLevels == {0, MaxDepth}

Widths == {Absent, Num(0), Num(480), Num(1080)}
VersionUrls == {Absent, Str(UrlA), Str(UrlB), Str(UrlEsc)}
Versions == {Version(w, u) : w \in Widths, u \in VersionUrls}
VersionArrays == UNION {[1..n -> Versions] : n \in 1..MaxVersions}

NotRun == [t |-> "notrun"]

QualityIdle == qin = [nest |-> 0, versions |-> <<>>] /\ qout = NotRun

\* data = JSON.parse(match[1]); findVideoInObject(data)
QSearch ==
    /\ qout = NotRun
    /\ qout' = findVideoInObject(
                   Nest(qin.nest, Obj(Absent, Arr(qin.versions), <<Scalar>>)), 0)
    /\ UNCHANGED <<qin, dvars, svars>>

----------------------------------------------------------------------------
(* GET /api/stream *)

MaxChunks == 3
\* chunks the response buffers before res.write returns false (writableHighWaterMark)
HighWaterChunks == 1

ChunkVals == {"x", "y"}
Bodies == UNION {[1..n -> ChunkVals] : n \in 0..MaxChunks}

FreshResponse == [status |-> 200, headersSent |-> FALSE, ended |-> FALSE, payload |-> ""]
\* res.status(code).json({ error: msg })
jsonError(code, msg) == [status |-> code, headersSent |-> TRUE, ended |-> TRUE, payload |-> msg]

\* catch (err) { if (!res.headersSent) res.status(500).json(...) }
streamCatch(r) == IF ~r.headersSent THEN jsonError(500, "Stream failed.") ELSE r

pumpWriteSkipFirst(w, value) == IF w = <<>> THEN w ELSE Append(w, value)
\* res.write(value)
pumpWrite(w, value) == Append(w, value)

StreamIdle ==
    /\ spc = "idle" /\ stimer = "unset" /\ saborted = FALSE /\ sdeadline = FALSE
    /\ pos = 0 /\ upstream = "idle" /\ written = <<>> /\ accepted = 0 /\ queued = 0
    /\ res = FreshResponse /\ clientOpen = TRUE /\ closedInBody = FALSE
    /\ readsAfterClose = 0

\* if (!url || !url.startsWith('https://')): 400
SReject ==
    /\ spc = "idle"
    /\ res' = jsonError(400, "Invalid video URL.")
    /\ spc' = "returned"
    /\ UNCHANGED <<stimer, saborted, sdeadline, body, pos, upstream, written, accepted,
                   queued, clientOpen, closedInBody, readsAfterClose>>
    /\ UNCHANGED <<dvars, qvars>>

\* controller, setTimeout(..., 60000), await fetch(url, { signal })
SStartFetch ==
    /\ spc = "idle"
    /\ stimer' = "armed"
    /\ upstream' = "connecting"
    /\ spc' = "await_fetch"
    /\ UNCHANGED <<saborted, sdeadline, body, pos, written, accepted, queued, res,
                   clientOpen, closedInBody, readsAfterClose>>
    /\ UNCHANGED <<dvars, qvars>>

\* 60000 ms after setTimeout: the callback () => controller.abort() runs if the
\* timer is still armed
SDeadline ==
    /\ stimer # "unset" /\ ~sdeadline
    /\ sdeadline' = TRUE
    /\ IF stimer = "armed"
       THEN stimer' = "fired" /\ saborted' = TRUE
       ELSE UNCHANGED <<stimer, saborted>>
    /\ UNCHANGED <<spc, body, pos, upstream, written, accepted, queued, res, clientOpen,
                   closedInBody, readsAfterClose>>
    /\ UNCHANGED <<dvars, qvars>>

\* fetch() resolves with the upstream's headers; clearTimeout(timeout)
SFetchResponds ==
    /\ spc = "await_fetch" /\ upstream = "connecting" /\ ~saborted
    /\ stimer' = IF stimer = "armed" THEN "cleared" ELSE stimer
    /\ \E status \in {200, 403} :
          IF status # 200
          THEN \* if (!upstream.ok) return res.status(502).json(...)
               /\ res' = jsonError(502, "Video source unavailable.")
               /\ upstream' = "refused"
               /\ spc' = "returned"
               /\ UNCHANGED readsAfterClose
          ELSE \* setHeader ..., getReader(), the first reader.read()
               /\ upstream' = "streaming"
               /\ spc' = "await_read"
               /\ readsAfterClose' = IF clientOpen THEN readsAfterClose
                                     ELSE readsAfterClose + 1
               /\ UNCHANGED res
    /\ UNCHANGED <<saborted, sdeadline, body, pos, written, accepted, queued, clientOpen,
                   closedInBody>>
    /\ UNCHANGED <<dvars, qvars>>

\* the upstream stops delivering, for good, without closing the connection
SUpstreamStalls ==
    /\ spc \in {"await_fetch", "await_read"}
    /\ upstream \in {"connecting", "streaming"}
    /\ upstream' = "stalled"
    /\ UNCHANGED <<spc, stimer, saborted, sdeadline, body, pos, written, accepted,
                   queued, res, clientOpen, closedInBody, readsAfterClose>>
    /\ UNCHANGED <<dvars, qvars>>

\* fetch() or reader.read() rejects (connection lost): the catch block
SUpstreamError ==
    /\ spc \in {"await_fetch", "await_read"}
    /\ upstream \in {"connecting", "streaming"} /\ ~saborted
    /\ upstream' = "errored"
    /\ res' = streamCatch(res)
    /\ spc' = "returned"
    /\ UNCHANGED <<stimer, saborted, sdeadline, body, pos, written, accepted, queued,
                   clientOpen, closedInBody, readsAfterClose>>
    /\ UNCHANGED <<dvars, qvars>>

\* the signal was aborted: the pending await rejects with AbortError: the catch block
SAbortRejects ==
    /\ spc \in {"await_fetch", "await_read"} /\ saborted
    /\ upstream' = "aborted"
    /\ res' = streamCatch(res)
    /\ spc' = "returned"
    /\ UNCHANGED <<stimer, saborted, sdeadline, body, pos, written, accepted, queued,
                   clientOpen, closedInBody, readsAfterClose>>
    /\ UNCHANGED <<dvars, qvars>>

\* reader.read() resolves with { done: false, value }: res.write(value), whose
\* return value is not looked at, and the next reader.read()
SReadChunk ==
    /\ spc = "await_read" /\ upstream = "streaming" /\ ~saborted
    /\ pos < Len(body)
    /\ pos' = pos + 1
    /\ written' = pumpWrite(written, body[pos + 1])
    /\ IF clientOpen
       THEN /\ queued' = queued + 1
            /\ res' = [res EXCEPT !.headersSent = TRUE]
            /\ UNCHANGED readsAfterClose
       ELSE \* a write to a destroyed response is dropped; no exception is raised
            /\ readsAfterClose' = readsAfterClose + 1
            /\ UNCHANGED <<queued, res>>
    /\ UNCHANGED <<spc, stimer, saborted, sdeadline, body, upstream, accepted, clientOpen,
                   closedInBody>>
    /\ UNCHANGED <<dvars, qvars>>

\* reader.read() resolves with { done: true }: break; res.end()
SReadDone ==
    /\ spc = "await_read" /\ upstream = "streaming" /\ ~saborted
    /\ pos = Len(body)
    /\ upstream' = "complete"
    /\ res' = [res EXCEPT !.headersSent = TRUE, !.ended = TRUE]
    /\ spc' = "returned"
    /\ UNCHANGED <<stimer, saborted, sdeadline, body, pos, written, accepted, queued,
                   clientOpen, closedInBody, readsAfterClose>>
    /\ UNCHANGED <<dvars, qvars>>

\* the client takes one buffered chunk off the connection
SClientAccepts ==
    /\ clientOpen /\ queued > 0
    /\ queued' = queued - 1
    /\ accepted' = accepted + 1
    /\ UNCHANGED <<spc, stimer, saborted, sdeadline, body, pos, upstream, written, res,
                   clientOpen, closedInBody, readsAfterClose>>
    /\ UNCHANGED <<dvars, qvars>>

\* the client closes the connection; the handler listens to no 'close' event
SClientDisconnects ==
    /\ clientOpen /\ spc \in {"await_fetch", "await_read"}
    /\ clientOpen' = FALSE
    /\ closedInBody' = (spc = "await_read")
    /\ queued' = 0
    /\ UNCHANGED <<spc, stimer, saborted, sdeadline, body, pos, upstream, written,
                   accepted, res, readsAfterClose>>
    /\ UNCHANGED <<dvars, qvars>>

----------------------------------------------------------------------------
(* Specifications *)

DownloadNext ==
    \/ DRejectRequest
    \/ DStartFetch
    \/ DDeadline
    \/ DFetchResponds
    \/ DNetworkError
    \/ DAbortRejects
    \/ DTextArrives
    \/ DRunStrategy
    \/ DExhausted
    \/ DRespondOk
    \/ DRespondError

\* one POST /api/download request
Init == DownloadIdle /\ QualityIdle /\ StreamIdle /\ body = <<>>
Next == DownloadNext
Spec == Init /\ [][Next]_vars

\* findVideoInObject on one payload
QualityInit ==
    /\ DownloadIdle /\ StreamIdle /\ body = <<>>
    /\ qin \in [nest : NestLevels, versions : VersionArrays]
    /\ qout = NotRun
QualityNext == QSearch
QualitySpec == QualityInit /\ [][QualityNext]_vars

\* one GET /api/stream request
StreamInit == DownloadIdle /\ QualityIdle /\ StreamIdle /\ body \in Bodies
StreamNext ==
    \/ SReject
    \/ SStartFetch
    \/ SDeadline
    \/ SFetchResponds
    \/ SUpstreamStalls
    \/ SUpstreamError
    \/ SAbortRejects
    \/ SReadChunk
    \/ SReadDone
    \/ SClientAccepts
    \/ SClientDisconnects
StreamSpec == StreamInit /\ [][StreamNext]_vars

----------------------------------------------------------------------------
(* Properties *)

StrategyOrder == <<"embedded_json", "opengraph", "graphql">>

\* C1: after the single page fetch the strategies are called in the order
\* embedded JSON, OpenGraph, broad regex scan; a strategy is called only after
\* every earlier one returned no match or threw, none is called after one has
\* succeeded, and the pipeline returns the result of the one that succeeded.
C1_OrderAndShortCircuit ==
    /\ fetches <= 1
    /\ invoked # <<>> => fetches = 1
    /\ Len(invoked) <= Len(StrategyOrder)
    /\ \A i \in DOMAIN invoked :
          /\ invoked[i].name = StrategyOrder[i]
          /\ i < Len(invoked) => invoked[i].outcome \in {"null", "threw"}
    /\ result.kind = "found" =>
          /\ invoked # <<>>
          /\ invoked[Len(invoked)].outcome = "found"
          /\ result = callStrategy(StrategyOrder[Len(invoked)], html)
    /\ result.kind # "found" => \A i \in DOMAIN invoked : invoked[i].outcome # "found"

\* C1 witness: the embedded JSON strategy found nothing, OpenGraph succeeded, and
\* the regex scan, which would have matched, was not called.
C1_Witness ==
    /\ dpc = "done" /\ dres.status = 200
    /\ Len(invoked) = 2 /\ invoked[2].outcome = "found"
    /\ extractFromGraphQL(html).kind = "found"

\* whether the try block of a matched payload pattern fails
PatternFails(b) ==
    \/ b.t = "invalid"
    \/ b.t = "json" /\ findVideoInObject(b.v, 0).t = "throw"

\* the document with every failing piece taken out: a failing payload does not
\* match its pattern, a DOM that cannot be built holds no meta tag
WithoutFailures(d) ==
    [d EXCEPT !.shared = IF PatternFails(@) THEN NoMatch ELSE @,
              !.additional = IF PatternFails(@) THEN NoMatch ELSE @,
              !.ogVideo = IF d.domThrows THEN Absent ELSE @,
              !.ogVideoUrl = IF d.domThrows THEN Absent ELSE @,
              !.ogSecureUrl = IF d.domThrows THEN Absent ELSE @,
              !.domThrows = FALSE]

RECURSIVE FirstSuccess(_, _)
FirstSuccess(d, i) ==
    IF i > Len(StrategyOrder) THEN SNull
    ELSE LET r == callStrategy(StrategyOrder[i], d)
         IN  IF r.kind = "found" THEN r ELSE FirstSuccess(d, i + 1)

\* C2: a payload pattern that matches but whose JSON is invalid, or a strategy
\* that throws, counts as no match: once extraction is over its outcome is what
\* the remaining patterns and strategies produce on the document, and the only
\* error it can end with is the one raised when every strategy found nothing.
C2_FailureDoesNotAbort ==
    (html # NoDoc /\ dpc \in {"respond", "catch", "done"}) =>
        /\ result = FirstSuccess(WithoutFailures(html), 1)
        /\ result.kind # "found" =>
              /\ err = Error("Error", LikelyCauses)
              /\ Len(invoked) = Len(StrategyOrder)

\* C2 witness: the first payload is truncated, the second one makes the search
\* throw, the DOM cannot be built, and the regex scan delivers the result.
C2_Witness ==
    /\ dpc = "done" /\ dres.status = 200
    /\ html.shared = Invalid /\ html.additional = Json(JBadType) /\ html.domThrows
    /\ html.videoUrlText = <<>>
    /\ result.method = "graphql_regex"

RECURSIVE Thrown(_)
\* the entries of the call log of the strategies that threw
Thrown(log) ==
    IF log = <<>> THEN <<>>
    ELSE (IF Head(log).outcome = "threw" THEN <<Head(log).name>> ELSE <<>>)
         \o Thrown(Tail(log))

FetchPending == dpc \in {"await_fetch", "await_text"}
FetchExited == fetches > 0 /\ ~FetchPending

\* C9: when the 15 s deadline elapses while the response headers or the body
\* text are still awaited, the in-flight request is aborted and fetchPage fails
\* with the abort (timeout) error rather than waiting on; and on every exit of
\* fetchPage the timer is no longer armed, so it cannot fire afterwards.
C9_FetchDeadline ==
    /\ (ddeadline /\ FetchPending) => (daborted /\ dtimer = "fired")
    /\ (daborted /\ FetchPending) => (ENABLED DAbortRejects /\ ~ENABLED DTextArrives)
    /\ (daborted /\ FetchExited) =>
          /\ err = Error("AbortError", "This operation was aborted")
          /\ html = NoDoc /\ result = SNull
    /\ FetchExited => dtimer \in {"cleared", "fired"}
    /\ dtimer = "fired" => daborted

\* C9 witness: the deadline elapsed during the fetch, which was aborted, and the
\* route answered with the abort error.
C9_Witness ==
    /\ dpc = "done" /\ ddeadline /\ daborted /\ dtimer = "fired"
    /\ err.name = "AbortError" /\ dres.status = 422

\* C9 witness of the other exits: the page was fetched in time and the deadline
\* elapsed afterwards without effect.
C9_WitnessCleared ==
    /\ dpc = "done" /\ ddeadline /\ ~daborted /\ dtimer = "cleared" /\ html # NoDoc

Max(S) == CHOOSE x \in S : \A y \in S : y <= x
Min(S) == CHOOSE x \in S : \A y \in S : x <= y

\* the entry of maximum width (no width counts as 0), the first one among equals
BestVersion(items) ==
    LET top == Max({WidthOr0(items[i]) : i \in DOMAIN items})
    IN  items[Min({i \in DOMAIN items : WidthOr0(items[i]) = top})]

\* C10 (as claimed): the search returns the url of the entry of maximum width,
\* an entry without a width counting as width 0 and the first one winning among
\* entries of equal maximum width.
C10_ReturnsUrlOfWidest ==
    qout # NotRun =>
        LET best == BestVersion(qin.versions)
        IN  IF best.url.t = "absent" THEN qout \in {FUndefined, FNull}
            ELSE qout = best.url

\* C10 (amended): the search returns the url of the entry of maximum width (no
\* width counts as 0, the first wins among equals) with every six-character
\* escape ESC_AMP in it replaced by an ampersand; when that entry has no url
\* the search finds nothing.
C10_ReturnsDecodedUrlOfWidest ==
    qout # NotRun =>
        LET best == BestVersion(qin.versions)
        IN  IF best.url.t = "absent" THEN qout \in {FUndefined, FNull}
            ELSE qout = Str(DecodeAmp(best.url.s))

\* C10 witness: three entries, one without a width, two of equal maximum
\* width; the first of these two is returned, its escape decoded.
C10_Witness ==
    /\ qin.nest = MaxDepth
    /\ qin.versions = <<Version(Absent, Str(UrlA)), Version(Num(1080), Str(UrlEsc)),
                        Version(Num(1080), Str(UrlB))>>
    /\ qout = Str(DecodeAmp(UrlEsc))
    /\ qout # Str(UrlEsc)

StreamPending == spc \in {"await_fetch", "await_read"}

\* C4: the 60 s deadline covers the whole transfer: when it elapses on a stream
\* whose upstream has stopped delivering (before the headers or during the
\* body), the upstream request is aborted.
C4_DeadlineCoversTransfer ==
    [][(upstream = "stalled" /\ StreamPending /\ ~sdeadline /\ sdeadline') => saborted']_vars

\* C5: when the upstream fails after body data has been sent to the client, the
\* handler terminates the response, without an error payload: the response is
\* not left open.
C5_ErrorEndsResponse ==
    (spc = "returned" /\ upstream = "errored" /\ Len(written) > 0 /\ clientOpen) =>
        (res.ended /\ res.payload = "")

\* C6: the chunks read from the upstream and not yet taken by the client never
\* exceed what the response buffers before it asks the writer to wait.
C6_Backpressure == queued <= HighWaterChunks

\* C7: when the client has disconnected while the body was being forwarded, the
\* handler issues no further reader.read() after the disconnect.
C7_DisconnectCancels == closedInBody => readsAfterClose = 0

\* C8: the handler writes the upstream's chunks each once and in upstream order,
\* and when the upstream has delivered all of them without error it has written
\* exactly those chunks and ended the response, which it ends only after the
\* last chunk has been written.
C8_ChunksInOrder ==
    /\ written = SubSeq(body, 1, pos)
    /\ upstream = "complete" =>
          /\ written = body
          /\ res.ended /\ res.status = 200 /\ spc = "returned"
    /\ (res.ended /\ res.status = 200) => written = body

\* C8 witness: an upstream of three chunks, not all alike, was forwarded and
\* the client took all of them.
C8_Witness ==
    /\ upstream = "complete" /\ Len(body) = 3 /\ body[1] # body[2]
    /\ clientOpen /\ accepted = 3 /\ res.ended

====
